---- MODULE Spec2Model ----
(***************************************************************************)
(* State-machine model of the WoW 3.3.5a executable patcher (main.cpp).    *)
(*                                                                         *)
(* The filesystem holds the target file ("wow", the path given on the      *)
(* command line) and its sibling "backup" (path + ".backup").  A file is   *)
(* a size plus the values of its bytes at the offsets in Tracked: every    *)
(* offset a patch entry covers, the offset on either side of each entry,   *)
(* and the offsets around the expected end of file.  No operation of the   *)
(* program touches any other offset individually.                          *)
(*                                                                         *)
(* A run of main is a sequence of steps, one per statement of main that    *)
(* calls out; createBackup, validateExecutable, writeBytesAt and           *)
(* restoreBackup are each computed as a whole by an operator.  Failures of *)
(* the filesystem and of the stream (copy, open, seek, write, remove,      *)
(* rename) are choices of the environment.                                 *)
(***************************************************************************)
EXTENDS Integers, Sequences, FiniteSets, TLC

VARIABLES
    fs,        \* [{"wow","backup"} -> File \cup {Absent}]
    wowExe,    \* the global std::fstream: [open, fail, target]
    pc,        \* position of the current run of main, "idle" between runs
    idx,       \* index into patches of the range-for loop
    exitCode,  \* exit status of the most recent run, "none" before any
    run,       \* what the current / most recent run did (history)
    last,      \* the most recent completed call and its result (history)
    orig,      \* content of wow at the latest successful createBackup
    budget     \* runs, restores and faults the environment has used

vars == <<fs, wowExe, pc, idx, exitCode, run, last, orig, budget>>

---------------------------------------------------------------------------
(* Bounds of the model *)

MaxRuns == 2        \* runs of the patcher in one behaviour
MaxRestores == 2    \* calls of restoreBackup in one behaviour
MaxFaults == 1      \* I/O failures the environment injects in one behaviour
MaxFailIdx == 2     \* a write failure hits one of the first MaxFailIdx bytes of an entry

---------------------------------------------------------------------------
(* Program constants *)

kExpectedSize == 7699456   \* 0x757C00

Rep(n, b) == [i \in 1..n |-> b]   \* std::vector<uint8_t>(n, b)

patches ==
    << 
      [pos |-> 679, data |-> <<192>>],
      [pos |-> 3732, data |-> <<235>>],
      [pos |-> 3021927, data |-> Rep(11, 144)],
      [pos |-> 3397577, data |-> <<235>>],
      [pos |-> 218559, data |-> <<235>>],
      [pos |-> 3399894, data |-> Rep(22, 144)],
      [pos |-> 1497241, data |-> <<5, 1, 0, 0, 0>>],
      [pos |-> 2994753, data |-> <<50>>],
      [pos |-> 6093760, data |-> <<199, 5, 116, 142, 211, 0, 255, 255, 255, 255, 195>>],
      [pos |-> 4626988, data |-> <<233, 113, 240, 11, 0, 248, 19, 212, 0, 139, 29, 252>>],
      [pos |-> 5409442, data |-> <<141, 77, 240, 81, 87, 255, 21, 220, 245, 157, 0, 139, 69, 240, 139, 21, 248, 19, 212, 0, 233, 122, 15, 244, 255>>],
      [pos |-> 4624817, data |-> <<137, 229, 139, 5, 252, 19, 212, 0, 139, 13, 248, 19, 212, 0, 235, 194, 125, 3, 131, 193, 1, 131, 192, 50, 131, 193, 50, 59, 13, 236, 188, 202, 0, 126, 3, 131, 233, 1, 59, 5, 240, 188, 202, 0, 126, 3, 131, 232, 1, 131, 233, 50, 131, 232, 50, 137, 13, 248, 19, 212, 0, 137, 5, 252, 19, 212, 0, 137, 236, 93, 233, 180, 247, 255, 255, 236, 93, 195, 195>>],
      [pos |-> 4624771, data |-> <<131, 248, 50, 125, 3, 131, 192, 1, 131, 249, 50, 235, 49>>]
    >>

EXIT_SUCCESS == "EXIT_SUCCESS"
EXIT_FAILURE == "EXIT_FAILURE"

---------------------------------------------------------------------------
(* Files *)


Covered(e) == e.pos .. (e.pos + Len(e.data) - 1)

Tracked ==
    UNION {(patches[i].pos - 1) .. (patches[i].pos + Len(patches[i].data)) : i \in 1..Len(patches)}
    \cup {0, kExpectedSize - 2, kExpectedSize - 1, kExpectedSize}

\* No file at the path.
Absent == [exists |-> FALSE, size |-> 0, bytes |-> [o \in Tracked |-> 0]]

\* A file of `size` bytes whose byte at offset o is (o + seed) mod 256.
FileOf(size, seed) ==
    [exists |-> TRUE, size |-> size,
     bytes |-> [o \in Tracked |-> IF o < size THEN (o + seed) % 256 ELSE 0]]

\* The first k bytes of f (what an interrupted copy leaves behind).
Prefix(f, k) ==
    [exists |-> TRUE, size |-> k,
     bytes |-> [o \in Tracked |-> IF o < k THEN f.bytes[o] ELSE 0]]

\* fs::exists
Exists(filesystem, name) == filesystem[name].exists

---------------------------------------------------------------------------
(* Failures the environment can inject.  `at` says where: for a copy, -1   *)
(* when the destination is left as it was and k >= 0 when it is left       *)
(* holding the first k bytes of the source; for a write, the 1-based index *)
(* of the value whose write fails.                                         *)

NoFault == [kind |-> "none", at |-> 0]

CopyCuts == {0, 680}

Min(a, b) == IF a < b THEN a ELSE b
Max(a, b) == IF a > b THEN a ELSE b

CopyFaults(f) ==
    {[kind |-> "copy", at |-> -1]}
    \cup {[kind |-> "copy", at |-> k] : k \in {c \in CopyCuts : c < f.size}}

WriteFaults(values) ==
    {[kind |-> "seek", at |-> 0]}
    \cup {[kind |-> "write", at |-> k] : k \in 1..Min(Len(values), MaxFailIdx)}

RestoreFaults(filesystem) ==
    (IF Exists(filesystem, "wow") THEN {[kind |-> "remove", at |-> 0]} ELSE {})
    \cup {[kind |-> "rename", at |-> 0]}

---------------------------------------------------------------------------
(* The functions of main.cpp *)

BackupPath == "backup"      \* filepath + ".backup"
NullOpt == "nullopt"

\* createBackup with copy_options::skip_existing: an existing backup is kept.
createBackup_skip_existing(filesystem, fault) ==
    IF ~Exists(filesystem, "wow")
    THEN [fs |-> filesystem, ret |-> NullOpt]
    ELSE IF fault.kind = "copy"
    THEN [fs |-> IF fault.at < 0 \/ Exists(filesystem, BackupPath)
                 THEN filesystem
                 ELSE [filesystem EXCEPT ![BackupPath] = Prefix(filesystem["wow"], fault.at)],
          ret |-> NullOpt]
    ELSE [fs |-> IF Exists(filesystem, BackupPath)
                 THEN filesystem
                 ELSE [filesystem EXCEPT ![BackupPath] = filesystem["wow"]],
          ret |-> BackupPath]

\* createBackup: fs::copy(filepath, backupPath, overwrite_existing) in a try
\* block; every exception becomes std::nullopt.
createBackup(filesystem, fault) ==
    IF ~Exists(filesystem, "wow")
    THEN [fs |-> filesystem, ret |-> NullOpt]
    ELSE IF fault.kind = "copy"
    THEN [fs |-> IF fault.at < 0
                 THEN filesystem
                 ELSE [filesystem EXCEPT ![BackupPath] = Prefix(filesystem["wow"], fault.at)],
          ret |-> NullOpt]
    ELSE [fs |-> [filesystem EXCEPT ![BackupPath] = filesystem["wow"]],
          ret |-> BackupPath]

\* validateExecutable with a minimum-size check instead of an exact one.
validateExecutable_at_least(filesystem, canOpen) ==
    IF ~Exists(filesystem, "wow") THEN FALSE
    ELSE IF ~canOpen THEN FALSE
    ELSE IF filesystem["wow"].size < kExpectedSize THEN FALSE
    ELSE TRUE

\* validateExecutable: exists, opens for binary reading, size == kExpectedSize.
validateExecutable(filesystem, canOpen) ==
    IF ~Exists(filesystem, "wow") THEN FALSE
    ELSE IF ~canOpen THEN FALSE
    ELSE IF filesystem["wow"].size # kExpectedSize THEN FALSE
    ELSE TRUE

\* restoreBackup that copies the backup over the original and keeps it.
restoreBackup_copy(filesystem, fault) ==
    IF Exists(filesystem, BackupPath)
    THEN IF fault.kind = "remove"
         THEN [fs |-> filesystem, ret |-> FALSE]
         ELSE IF fault.kind = "rename"
         THEN [fs |-> [filesystem EXCEPT !["wow"] = Absent], ret |-> FALSE]
         ELSE [fs |-> [filesystem EXCEPT !["wow"] = filesystem[BackupPath]],
               ret |-> TRUE]
    ELSE [fs |-> filesystem, ret |-> FALSE]

\* restoreBackup that removes the original before looking for the backup.
restoreBackup_remove_first(filesystem, fault) ==
    IF Exists(filesystem, BackupPath)
    THEN IF fault.kind = "remove"
         THEN [fs |-> filesystem, ret |-> FALSE]
         ELSE IF fault.kind = "rename"
         THEN [fs |-> [filesystem EXCEPT !["wow"] = Absent], ret |-> FALSE]
         ELSE [fs |-> [filesystem EXCEPT !["wow"] = filesystem[BackupPath],
                                         ![BackupPath] = Absent],
               ret |-> TRUE]
    ELSE [fs |-> [filesystem EXCEPT !["wow"] = Absent], ret |-> FALSE]

\* restoreBackup: if the backup exists, remove the original and rename the
\* backup onto it; a filesystem_error from either makes it return false.
restoreBackup(filesystem, fault) ==
    IF Exists(filesystem, BackupPath)
    THEN IF fault.kind = "remove"
         THEN [fs |-> filesystem, ret |-> FALSE]
         ELSE IF fault.kind = "rename"
         THEN [fs |-> [filesystem EXCEPT !["wow"] = Absent], ret |-> FALSE]
         ELSE [fs |-> [filesystem EXCEPT !["wow"] = filesystem[BackupPath],
                                         ![BackupPath] = Absent],
               ret |-> TRUE]
    ELSE [fs |-> filesystem, ret |-> FALSE]

\* WriteValues without the advance of the put position: every value lands
\* on offset pos.
WriteValues_no_advance(f, pos, values, n) ==
    [f EXCEPT !.size = IF n > 0 THEN Max(f.size, pos + 1) ELSE f.size,
              !.bytes = [o \in Tracked |->
                            IF o = pos /\ n > 0 THEN values[n] ELSE f.bytes[o]]]

\* The file after wowExe.write has put the single bytes values[1..n], one
\* after the other, at the offsets pos, pos + 1, ..., pos + n - 1.
WriteValues(f, pos, values, n) ==
    [f EXCEPT !.size = IF n > 0 THEN Max(f.size, pos + n) ELSE f.size,
              !.bytes = [o \in Tracked |->
                            IF pos <= o /\ o < pos + n THEN values[o - pos + 1]
                            ELSE f.bytes[o]]]

\* The for loop of writeBytesAt: write each value in turn and return at the
\* first write that leaves the stream failed.
WriteLoop(stream, f, pos, values, fault) ==
    IF fault.kind = "write" /\ fault.at <= Len(values)
    THEN [wowExe |-> [stream EXCEPT !.fail = TRUE],
          file |-> WriteValues(f, pos, values, fault.at - 1),
          outcome |-> "write_failed"]
    ELSE [wowExe |-> stream,
          file |-> WriteValues(f, pos, values, Len(values)),
          outcome |-> "written"]

\* std::basic_ios::operator!, i.e. fail(): failbit or badbit is set.
Not(stream) == stream.fail

\* writeBytesAt: return if !wowExe; otherwise clear the flags, seek, and
\* write the values one by one.
writeBytesAt(stream, filesystem, pos, values, fault) ==
    IF Not(stream)
    THEN [wowExe |-> stream, fs |-> filesystem, outcome |-> "skipped"]
    ELSE LET cleared == [stream EXCEPT !.fail = FALSE] IN
         IF fault.kind = "seek"
         THEN [wowExe |-> [cleared EXCEPT !.fail = TRUE], fs |-> filesystem,
               outcome |-> "seek_failed"]
         ELSE LET r == WriteLoop(cleared, filesystem[stream.target], pos, values, fault)
              IN  [wowExe |-> r.wowExe,
                   fs |-> [filesystem EXCEPT ![stream.target] = r.file],
                   outcome |-> r.outcome]

---------------------------------------------------------------------------
(* Initial states: the target is missing, or a file of one of a few sizes  *)
(* around the expected one; a backup left by an earlier use may exist.     *)

InitSizes == {680, kExpectedSize - 1, kExpectedSize, kExpectedSize + 1}

InitWow == {Absent} \cup {FileOf(n, 17) : n \in InitSizes}
InitBackup == {Absent, FileOf(681, 99)}

Closed == [open |-> FALSE, fail |-> FALSE, target |-> "none"]

NoFiles == [n \in {"wow", "backup"} |-> Absent]

NoRun ==
    [argOk |-> FALSE, existsOk |-> FALSE, backupOk |-> FALSE, validOk |-> FALSE,
     openOk |-> FALSE, start |-> NoFiles, outcome |-> <<>>]

NoOrig == [set |-> FALSE, file |-> Absent]

NoCall ==
    [op |-> "none", ret |-> FALSE, pre |-> NoFiles, post |-> NoFiles, arg |-> "none", orig |-> NoOrig]

Init ==
    /\ fs \in {[n \in {"wow", "backup"} |-> IF n = "wow" THEN w ELSE b] :
                  w \in InitWow, b \in InitBackup}
    /\ wowExe = Closed
    /\ pc = "idle"
    /\ idx = 1
    /\ exitCode = "none"
    /\ run = NoRun
    /\ last = NoCall
    /\ orig = NoOrig
    /\ budget = [runs |-> 0, restores |-> 0, faults |-> 0]

Idle == pc \in {"idle", "exited"}

\* The environment injects `fault` from the set `possible`, or nothing.
Inject(fault, possible) ==
    \/ fault = NoFault /\ budget' = budget
    \/ /\ fault \in possible
       /\ budget.faults < MaxFaults
       /\ budget' = [budget EXCEPT !.faults = @ + 1]

Exit(code) ==
    /\ pc' = "exited"
    /\ exitCode' = code

---------------------------------------------------------------------------
(* main, one action per stage *)

\* Opening the backup path for patching instead of wowPath.
OpenTarget_backup == BackupPath

\* The file wowExe.open is given: wowPath.
OpenTarget == "wow"

\* main is started with argc arguments: argc < 2 returns EXIT_FAILURE.
MainArgs(argc) ==
    /\ Idle
    /\ budget.runs < MaxRuns
    /\ budget' = [budget EXCEPT !.runs = @ + 1]
    /\ run' = [NoRun EXCEPT !.argOk = (argc >= 2), !.start = fs]
    /\ wowExe' = Closed
    /\ idx' = 1
    /\ IF argc < 2
       THEN Exit(EXIT_FAILURE)
       ELSE pc' = "exists" /\ exitCode' = "none"
    /\ UNCHANGED <<fs, last, orig>>

\* MainExists that also deletes a leftover backup when the target is missing.
MainExists_cleanup ==
    /\ pc = "exists"
    /\ run' = [run EXCEPT !.existsOk = Exists(fs, "wow")]
    /\ IF ~Exists(fs, "wow")
       THEN Exit(EXIT_FAILURE) /\ fs' = [fs EXCEPT ![BackupPath] = Absent]
       ELSE pc' = "backup" /\ UNCHANGED <<exitCode, fs>>
    /\ UNCHANGED <<wowExe, idx, last, orig, budget>>

\* if (!fs::exists(wowPath)) return EXIT_FAILURE;
MainExists ==
    /\ pc = "exists"
    /\ run' = [run EXCEPT !.existsOk = Exists(fs, "wow")]
    /\ IF ~Exists(fs, "wow")
       THEN Exit(EXIT_FAILURE)
       ELSE pc' = "backup" /\ UNCHANGED exitCode
    /\ UNCHANGED <<fs, wowExe, idx, last, orig, budget>>

\* if (!createBackup(wowPath)) return EXIT_FAILURE;
MainBackup(fault) ==
    /\ pc = "backup"
    /\ Inject(fault, IF Exists(fs, "wow") THEN CopyFaults(fs["wow"]) ELSE {})
    /\ LET r == createBackup(fs, fault) IN
       /\ fs' = r.fs
       /\ last' = [op |-> "createBackup", ret |-> (r.ret # NullOpt), pre |-> fs, post |-> r.fs,
                   arg |-> fault.kind, orig |-> orig]
       /\ orig' = IF r.ret # NullOpt THEN [set |-> TRUE, file |-> fs["wow"]] ELSE NoOrig
       /\ run' = [run EXCEPT !.backupOk = (r.ret # NullOpt)]
       /\ IF r.ret = NullOpt
          THEN Exit(EXIT_FAILURE)
          ELSE pc' = "validate" /\ UNCHANGED exitCode
    /\ UNCHANGED <<wowExe, idx>>

\* if (!validateExecutable(wowPath)) return EXIT_FAILURE;
MainValidate(canOpen) ==
    /\ pc = "validate"
    /\ Inject(IF canOpen THEN NoFault ELSE [kind |-> "open", at |-> 0],
              {[kind |-> "open", at |-> 0]})
    /\ LET ok == validateExecutable(fs, canOpen) IN
       /\ last' = [op |-> "validateExecutable", ret |-> ok, pre |-> fs, post |-> fs,
                   arg |-> IF canOpen THEN "none" ELSE "open", orig |-> orig]
       /\ run' = [run EXCEPT !.validOk = ok]
       /\ IF ~ok
          THEN Exit(EXIT_FAILURE)
          ELSE pc' = "open" /\ UNCHANGED exitCode
    /\ UNCHANGED <<fs, wowExe, idx, orig>>

\* wowExe.open(wowPath, in | out | binary); if (!wowExe) return EXIT_FAILURE;
MainOpen(canOpen) ==
    /\ pc = "open"
    /\ Inject(IF canOpen THEN NoFault ELSE [kind |-> "open", at |-> 0],
              {[kind |-> "open", at |-> 0]})
    /\ wowExe' = IF canOpen /\ Exists(fs, OpenTarget)
                 THEN [open |-> TRUE, fail |-> FALSE, target |-> OpenTarget]
                 ELSE [open |-> FALSE, fail |-> TRUE, target |-> "none"]
    /\ run' = [run EXCEPT !.openOk = ~Not(wowExe')]
    /\ IF Not(wowExe')
       THEN Exit(EXIT_FAILURE)
       ELSE pc' = "patching" /\ UNCHANGED exitCode
    /\ UNCHANGED <<fs, idx, last, orig>>

\* One iteration of: for (const auto &[pos, data]: patches) writeBytesAt(pos, data);
MainPatch(fault) ==
    /\ pc = "patching"
    /\ idx <= Len(patches)
    /\ Inject(fault, IF Not(wowExe) THEN {} ELSE WriteFaults(patches[idx].data))
    /\ LET r == writeBytesAt(wowExe, fs, patches[idx].pos, patches[idx].data, fault) IN
       /\ wowExe' = r.wowExe
       /\ fs' = r.fs
       /\ run' = [run EXCEPT !.outcome = Append(@, r.outcome)]
    /\ idx' = idx + 1
    /\ pc' = IF idx = Len(patches) THEN "close" ELSE "patching"
    /\ UNCHANGED <<exitCode, last, orig>>

\* An exit status that reports a stream left failed by the write loop.
errorState_checked == IF wowExe.fail THEN EXIT_FAILURE ELSE EXIT_SUCCESS

\* constexpr int errorState = EXIT_SUCCESS;
errorState == EXIT_SUCCESS

\* wowExe.close(); return errorState;
MainClose ==
    /\ pc = "close"
    /\ wowExe' = [wowExe EXCEPT !.open = FALSE]
    /\ Exit(errorState)
    /\ UNCHANGED <<fs, idx, run, last, orig, budget>>

---------------------------------------------------------------------------
(* The functions called on their own, between runs *)

CallRestoreBackup(fault) ==
    /\ Idle
    /\ budget.restores < MaxRestores
    /\ \/ fault = NoFault /\ budget' = [budget EXCEPT !.restores = @ + 1]
       \/ /\ Exists(fs, BackupPath)
          /\ fault \in RestoreFaults(fs)
          /\ budget.faults < MaxFaults
          /\ budget' = [budget EXCEPT !.restores = @ + 1, !.faults = @ + 1]
    /\ LET r == restoreBackup(fs, fault) IN
       /\ fs' = r.fs
       /\ last' = [op |-> "restoreBackup", ret |-> r.ret, pre |-> fs, post |-> r.fs,
                   arg |-> fault.kind, orig |-> orig]
    /\ orig' = NoOrig
    /\ pc' = "idle"
    /\ UNCHANGED <<wowExe, idx, exitCode, run>>

CallValidateExecutable(canOpen) ==
    /\ Idle
    /\ last' = [op |-> "validateExecutable", ret |-> validateExecutable(fs, canOpen),
                pre |-> fs, post |-> fs, arg |-> IF canOpen THEN "none" ELSE "open", orig |-> orig]
    /\ pc' = "idle"
    /\ UNCHANGED <<fs, wowExe, idx, exitCode, run, orig, budget>>

---------------------------------------------------------------------------

AllFaults ==
    {NoFault, [kind |-> "seek", at |-> 0], [kind |-> "remove", at |-> 0],
     [kind |-> "rename", at |-> 0]}
    \cup {[kind |-> "copy", at |-> k] : k \in {-1} \cup CopyCuts}
    \cup {[kind |-> "write", at |-> k] : k \in 1..MaxFailIdx}

Next ==
    \/ \E argc \in {1, 2} : MainArgs(argc)
    \/ MainExists
    \/ \E fault \in AllFaults : MainBackup(fault)
    \/ \E canOpen \in BOOLEAN : MainValidate(canOpen)
    \/ \E canOpen \in BOOLEAN : MainOpen(canOpen)
    \/ \E fault \in AllFaults : MainPatch(fault)
    \/ MainClose
    \/ \E fault \in AllFaults : CallRestoreBackup(fault)
    \/ \E canOpen \in BOOLEAN : CallValidateExecutable(canOpen)

Spec == Init /\ [][Next]_vars

---------------------------------------------------------------------------
(* Properties *)

InRun == pc # "idle"
Failed(o) == o \in {"seek_failed", "write_failed"}
AllWritten ==
    /\ Len(run.outcome) = Len(patches)
    /\ \A i \in 1..Len(run.outcome) : run.outcome[i] = "written"

\* C1: within a run of main the target differs from what it was at the start
\* of the run only if the existence check passed, createBackup returned a
\* path, the backup exists and validateExecutable returned true; a target
\* whose size is not kExpectedSize never reaches the write loop and is left
\* as it was.
C1_WriteOnlyAfterBackupAndValidation ==
    /\ (InRun /\ fs["wow"] # run.start["wow"]) =>
          /\ run.existsOk /\ run.backupOk /\ run.validOk
          /\ Exists(fs, BackupPath)
    /\ (InRun /\ run.start["wow"].size # kExpectedSize) =>
          /\ pc \notin {"patching", "close"}
          /\ run.outcome = <<>>
          /\ fs["wow"] = run.start["wow"]

C1_Witness ==
    /\ pc = "patching"
    /\ fs["wow"] # run.start["wow"]
    /\ run.validOk /\ run.backupOk
    /\ fs[BackupPath] = run.start["wow"]

\* C2: in the write loop, when the seek or a write of entry i fails, every
\* later entry j > i is still attempted (it is not skipped), so the loop
\* applies every entry that can be applied.
C2_LaterEntriesStillWritten ==
    \A i, j \in 1..Len(run.outcome) :
        (i < j /\ Failed(run.outcome[i])) => run.outcome[j] # "skipped"

\* C3 (as claimed): once createBackup has created the backup, the only
\* change that ever happens to it is its removal by restoreBackup, which
\* renames it onto the target.  Stated for the steps in which no I/O
\* operation fails.
C3_BackupNeverModified ==
    [][(/\ orig.set
        /\ Exists(fs, BackupPath)
        /\ budget'.faults = budget.faults
        /\ fs'[BackupPath] # fs[BackupPath]) =>
          (~Exists(fs', BackupPath) /\ fs'["wow"] = fs[BackupPath])]_vars

\* C3 (amended): the backup changes only in the createBackup step of a run,
\* which overwrites it with a copy of the current target (a truncated copy
\* when the copy fails part-way), or in restoreBackup, which removes it by
\* renaming it onto the target; validation, the write loop and close never
\* modify it.
C3_BackupChangedOnlyByBackupOrRestore ==
    [][(fs'[BackupPath] # fs[BackupPath]) =>
          \/ /\ pc = "backup"
             /\ \/ fs'[BackupPath] = fs["wow"]
                \/ \E k \in CopyCuts : fs'[BackupPath] = Prefix(fs["wow"], k)
          \/ /\ Idle
             /\ Exists(fs, BackupPath)
             /\ ~Exists(fs', BackupPath)
             /\ fs'["wow"] = fs[BackupPath]]_vars

C3_Witness ==
    /\ last.op = "createBackup"
    /\ last.ret
    /\ Exists(last.pre, BackupPath)
    /\ last.pre[BackupPath] # last.post[BackupPath]
    /\ budget.runs = 2
    /\ pc = "validate"
    /\ fs[BackupPath] = fs["wow"]

\* C4: validateExecutable returns true exactly when the file exists, can be
\* opened for reading and its size equals kExpectedSize.
C4_ValidateIffExactSize ==
    (last.op = "validateExecutable") =>
        (last.ret <=> /\ last.pre["wow"].exists
                      /\ last.arg = "none"
                      /\ last.pre["wow"].size = kExpectedSize)

C4_Witness ==
    /\ last.op = "validateExecutable"
    /\ last.pre["wow"].exists
    /\ last.arg = "none"
    /\ last.pre["wow"].size = kExpectedSize + 1
    /\ ~last.ret

\* The last entry of patches, in table order, that covers offset o (0 if none).
LastCovering(o) ==
    LET C == {i \in 1..Len(patches) : o \in Covered(patches[i])}
    IN  IF C = {} THEN 0 ELSE CHOOSE i \in C : \A j \in C : j <= i

\* C5: after a run whose write loop had no seek or write failure, the target
\* has its size unchanged, every byte covered by an entry holds the value
\* given by the last entry covering it, and every other byte is as it was
\* at the start of the run.
C5_PatchedContent ==
    (pc \in {"close", "exited"} /\ AllWritten) =>
        /\ fs["wow"].exists
        /\ fs["wow"].size = run.start["wow"].size
        /\ \A o \in Tracked :
              fs["wow"].bytes[o] =
                 IF LastCovering(o) = 0
                 THEN run.start["wow"].bytes[o]
                 ELSE patches[LastCovering(o)].data[o - patches[LastCovering(o)].pos + 1]

C5_Witness ==
    /\ pc = "exited"
    /\ exitCode = EXIT_SUCCESS
    /\ AllWritten
    /\ fs["wow"] # run.start["wow"]
    /\ fs["wow"].bytes[679] = 192

\* C6: when createBackup returns a path, the backup equals the target as it
\* was before the call, whatever backup existed before, and the target is
\* unchanged; when it returns no path the target is unchanged too and main
\* returns EXIT_FAILURE.
C6_BackupIsCopy ==
    (last.op = "createBackup") =>
        /\ last.ret =>
              /\ last.post[BackupPath] = last.pre["wow"]
              /\ last.post[BackupPath].exists
        /\ last.post["wow"] = last.pre["wow"]
        /\ (~last.ret /\ pc = "exited") => exitCode = EXIT_FAILURE

C6_Witness ==
    /\ last.op = "createBackup"
    /\ last.ret
    /\ Exists(last.pre, BackupPath)
    /\ last.pre[BackupPath] # last.pre["wow"]
    /\ last.post[BackupPath] = last.pre["wow"]

\* C7 (as claimed): a restoreBackup that follows a successful createBackup
\* and any mutation of the target returns true, leaves the target equal to
\* the content that was backed up, and leaves no backup.
C7_RoundTripAlwaysRestores ==
    (last.op = "restoreBackup" /\ last.orig.set) =>
        /\ last.ret
        /\ last.post["wow"] = last.orig.file
        /\ ~Exists(last.post, BackupPath)

\* C7 (amended): such a restoreBackup returns true exactly when neither the
\* remove nor the rename raises a filesystem error, and then the target
\* equals the content that was backed up and no backup is left; when one of
\* them raises it returns false, the backup still holds that content, and
\* the target is as it was or is gone.
C7_RoundTripUnlessFilesystemError ==
    (last.op = "restoreBackup" /\ last.orig.set) =>
        /\ last.ret <=> (last.arg = "none")
        /\ last.ret =>
              /\ last.post["wow"] = last.orig.file
              /\ ~Exists(last.post, BackupPath)
        /\ ~last.ret =>
              /\ last.post[BackupPath] = last.orig.file
              /\ last.post["wow"] \in {last.pre["wow"], Absent}

C7_Witness ==
    /\ last.op = "restoreBackup"
    /\ last.orig.set
    /\ last.ret
    /\ last.pre["wow"] # last.orig.file
    /\ fs["wow"] = last.orig.file
    /\ ~Exists(fs, BackupPath)

AllStagesOk ==
    run.argOk /\ run.existsOk /\ run.backupOk /\ run.validOk /\ run.openOk

C9_EarlyAbortNoSideEffect ==
    (pc = "exited" /\ (~run.argOk \/ ~Exists(run.start, "wow"))) =>
        /\ exitCode = EXIT_FAILURE
        /\ fs = run.start

C9_Witness ==
    /\ pc = "exited"
    /\ run.argOk
    /\ ~Exists(run.start, "wow")
    /\ Exists(fs, BackupPath)
    /\ exitCode = EXIT_FAILURE

\* C10: restoreBackup called when no backup exists returns false and leaves
\* the target and the backup as they were.
C10_RestoreWithoutBackup ==
    (last.op = "restoreBackup" /\ ~Exists(last.pre, BackupPath)) =>
        /\ ~last.ret
        /\ last.post = last.pre
        /\ fs = last.pre

C10_Witness ==
    /\ last.op = "restoreBackup"
    /\ ~Exists(last.pre, BackupPath)
    /\ Exists(last.pre, "wow")
    /\ ~last.ret
    /\ Exists(fs, "wow")

====
